---- MODULE Spec2Model ----
(***************************************************************************)
(* Model of the orchestration core of the gift-card checkout automation:   *)
(*   - WorkerPool      (src/src/index.ts)            concurrency limiter   *)
(*   - retry           (src/src/sdk/utils/retry.ts)  backoff retrier       *)
(*   - purchaseGiftCard (src/unnamed/part_005) with the BitrefillBrowser   *)
(*     driver (src/src/sdk/browser/bitrefill.ts)     orchestration facade  *)
(* Each component has its own specification over the shared variables; the *)
(* variables of the other components stay at their idle values.            *)
(***************************************************************************)
EXTENDS Integers, Sequences, FiniteSets, TLC

(***************************************************************************)
(* Bounds of the model                                                     *)
(***************************************************************************)
MaxTasks == 4        \* number of enqueue calls explored
MaxFairTasks == 3    \* number of enqueue calls explored by the fair specification
MaxConcOpt == 2      \* largest maxConcurrency option explored
MaxQueueOpt == 2     \* largest maxQueueSize option explored
MaxRetriesOpt == 6   \* largest maxRetries explored
MaxStepRetriesOpt == 2  \* largest maxRetries option given to the facade or driver
MaxDriverCalls == 3     \* number of driver method calls a caller makes
MaxHumanCalls == 2      \* calls of interaction primitives made one after the other
MaxScrollSteps == 2     \* window.scrollBy steps of one humanScroll

(***************************************************************************)
(* Program constants                                                       *)
(***************************************************************************)
DefaultMaxConcurrency == 2
DefaultMaxQueueSize == 100

VARIABLES
  \* ---- WorkerPool ----
  maxConcurrency,   \* this.maxConcurrency
  maxQueueSize,     \* this.maxQueueSize
  activeWorkers,    \* this.activeWorkers
  queue,            \* this.queue (task ids, head first)
  isProcessing,     \* this.isProcessing
  submitted,        \* number of enqueue calls made so far; ids are 1..submitted
  opState,          \* per task: state of task.fn()'s operation
  future,           \* per task: state of the promise returned by enqueue
  timer,            \* per task: state of the setTimeout of executeTask
  released,         \* per task: the .finally callback of processQueue has run
  \* ---- retry ----
  rt,               \* one call of retry(fn, maxRetriesOrOptions)
  \* ---- purchaseGiftCard and its BitrefillBrowser ----
  fa,               \* one run of the facade: position, inputs, logs, result
  drv,              \* the BitrefillBrowser instance: its handles and options
  brs,              \* the browser processes: launches and closes so far
  \* ---- a BitrefillBrowser driven directly by a caller ----
  dc,               \* the driver call in progress and the last completed one
  \* ---- the API server ----
  api,              \* one POST /api/checkout request and its queued task
  \* ---- the human interaction utilities ----
  cb,               \* one run of handleCookieBanner inside initialize()
  hu                \* the interaction primitive being called and the calls made

poolVars == <<maxConcurrency, maxQueueSize, activeWorkers, queue, isProcessing,
              submitted, opState, future, timer, released>>

facadeVars == <<fa, drv, brs, dc, api, cb, hu>>

vars == <<poolVars, rt, facadeVars>>

Tasks == 1..MaxTasks

(***************************************************************************)
(* WorkerPool                                                              *)
(***************************************************************************)

\* JavaScript's `x || y` on numbers: 0 (and an absent option, modelled as 0)
\* is falsy and yields the default.
OrDefault(v, dflt) == IF v = 0 THEN dflt ELSE v

\* constructor(options): an absent option is modelled as 0, which `||` treats
\* the same way.
NewPool(c, q) ==
  /\ maxConcurrency = OrDefault(c, DefaultMaxConcurrency)
  /\ maxQueueSize = OrDefault(q, DefaultMaxQueueSize)
  /\ activeWorkers = 0
  /\ queue = <<>>
  /\ isProcessing = FALSE
  /\ submitted = 0
  /\ opState = [t \in Tasks |-> "notstarted"]
  /\ future = [t \in Tasks |-> "none"]
  /\ timer = [t \in Tasks |-> "unset"]
  /\ released = [t \in Tasks |-> FALSE]

InitPool == \E c \in 0..MaxConcOpt, q \in 0..MaxQueueOpt : NewPool(c, q)

\* `this.activeWorkers < this.maxConcurrency` of the scheduler loop
SlotFreeOffByOne(a, c) == a <= c
SlotFree(a, c) == a < c

\* `this.queue.length >= this.maxQueueSize` of enqueue
QueueFullOffByOne(q) == Len(q) > maxQueueSize
QueueFull(q) == Len(q) >= maxQueueSize

\* (variant: the scheduler pops the most recently queued task)
RECURSIVE ProcessLoopLifo(_, _, _, _)
ProcessLoopLifo(q, a, s, c) ==
  IF Len(q) > 0 /\ SlotFree(a, c)
    THEN ProcessLoopLifo(SubSeq(q, 1, Len(q) - 1), a + 1, Append(s, q[Len(q)]), c)
    ELSE [queue |-> q, active |-> a, started |-> s]

\* The while loop of processQueue: as long as a task is pending and a slot is
\* free, shift the head, increment activeWorkers and start it.  `s` collects
\* the started tasks in start order.
RECURSIVE ProcessLoop(_, _, _, _)
ProcessLoop(q, a, s, c) ==
  IF Len(q) > 0 /\ SlotFree(a, c)
    THEN ProcessLoop(Tail(q), a + 1, Append(s, Head(q)), c)
    ELSE [queue |-> q, active |-> a, started |-> s]

\* processQueue(): runs synchronously (it contains no await).  Started tasks
\* have executeTask called: the timer is armed and task.fn() is invoked.
ProcessQueue(q, a) ==
  LET res == ProcessLoop(q, a, <<>>, maxConcurrency)
      S == {res.started[i] : i \in 1..Len(res.started)}
  IN  /\ queue' = res.queue
      /\ activeWorkers' = res.active
      /\ opState' = [t \in Tasks |-> IF t \in S THEN "running" ELSE opState[t]]
      /\ timer' = [t \in Tasks |-> IF t \in S THEN "armed" ELSE timer[t]]
      /\ isProcessing' = ~(Len(res.queue) = 0 \/ res.active >= maxConcurrency)

\* enqueue(fn)
Enqueue ==
  /\ submitted < MaxTasks
  /\ LET t == submitted + 1 IN
     /\ submitted' = t
     /\ IF QueueFull(queue)
          THEN /\ future' = [future EXCEPT ![t] = "rejected_full"]
               /\ UNCHANGED <<queue, activeWorkers, opState, timer, isProcessing>>
          ELSE /\ future' = [future EXCEPT ![t] = "pending"]
               /\ IF ~isProcessing
                    THEN ProcessQueue(Append(queue, t), activeWorkers)
                    ELSE /\ queue' = Append(queue, t)
                         /\ UNCHANGED <<activeWorkers, opState, timer, isProcessing>>
  /\ UNCHANGED <<maxConcurrency, maxQueueSize, released, rt, facadeVars>>

\* (variant: the timeout does not take part in the race)
SettleIgnoresTimeout(t, outcome) ==
  IF future[t] = "pending" /\ outcome # "rejected_timeout"
    THEN [future EXCEPT ![t] = outcome] ELSE future

\* Promise.race in executeTask: the first of {operation outcome, timeout}
\* settles the race and with it the task's future.
Settle(t, outcome) ==
  IF future[t] = "pending" THEN [future EXCEPT ![t] = outcome] ELSE future

\* task.fn() resolves
OpSucceed(t) ==
  /\ opState[t] = "running"
  /\ opState' = [opState EXCEPT ![t] = "ok"]
  /\ future' = Settle(t, "resolved")
  /\ UNCHANGED <<maxConcurrency, maxQueueSize, activeWorkers, queue, isProcessing,
                 submitted, timer, released, rt, facadeVars>>

\* task.fn() rejects
OpFail(t) ==
  /\ opState[t] = "running"
  /\ opState' = [opState EXCEPT ![t] = "failed"]
  /\ future' = Settle(t, "rejected_error")
  /\ UNCHANGED <<maxConcurrency, maxQueueSize, activeWorkers, queue, isProcessing,
                 submitted, timer, released, rt, facadeVars>>

\* the setTimeout callback of executeTask fires (the timer is never cleared)
TimerFire(t) ==
  /\ timer[t] = "armed"
  /\ timer' = [timer EXCEPT ![t] = "fired"]
  /\ future' = Settle(t, "rejected_timeout")
  /\ UNCHANGED <<maxConcurrency, maxQueueSize, activeWorkers, queue, isProcessing,
                 submitted, opState, released, rt, facadeVars>>

Settled(t) == future[t] \in {"resolved", "rejected_error", "rejected_timeout"}

\* (variant: the .finally callback only decrements the counter)
AfterReleaseNoRescan(q, a) ==
  /\ queue' = q
  /\ activeWorkers' = a
  /\ UNCHANGED <<opState, timer, isProcessing>>

\* `this.processQueue()` of the .finally callback, after the decrement
AfterRelease(q, a) == ProcessQueue(q, a)

\* (variant: the .finally callback does not decrement the counter)
ReleaseNoDecrement(t) ==
  /\ Settled(t)
  /\ ~released[t]
  /\ released' = [released EXCEPT ![t] = TRUE]
  /\ AfterRelease(queue, activeWorkers)
  /\ UNCHANGED <<maxConcurrency, maxQueueSize, submitted, future, rt, facadeVars>>

\* the .finally callback attached in processQueue: runs once executeTask's
\* promise has settled; decrements activeWorkers and re-invokes processQueue.
Release(t) ==
  /\ Settled(t)
  /\ ~released[t]
  /\ released' = [released EXCEPT ![t] = TRUE]
  /\ AfterRelease(queue, activeWorkers - 1)
  /\ UNCHANGED <<maxConcurrency, maxQueueSize, submitted, future, rt, facadeVars>>

NextPool ==
  \/ Enqueue
  \/ \E t \in Tasks : OpSucceed(t)
  \/ \E t \in Tasks : OpFail(t)
  \/ \E t \in Tasks : TimerFire(t)
  \/ \E t \in Tasks : Release(t)

(***************************************************************************)
(* retry                                                                   *)
(***************************************************************************)

\* DEFAULT_OPTIONS of retry.ts
DEFAULT_OPTIONS ==
  [maxRetries |-> 3, baseDelay |-> 1000, maxDelay |-> 10000, backoffFactor |-> 2]

\* the literals of `options.baseDelay || 1000`, `options.backoffFactor || 2`
\* and `options.maxDelay || 10000`
FallbackBaseDelay == 1000
FallbackBackoffFactor == 2
FallbackMaxDelay == 10000

\* Object spread { ...x, ...y }: the keys of y override those of x.
Spread(x, y) ==
  [k \in (DOMAIN x) \cup (DOMAIN y) |-> IF k \in DOMAIN y THEN y[k] ELSE x[k]]

\* The option objects explored: maxRetries is required, the other keys are
\* optional and are either absent from the object or carry a number.
OptionalKeys == {"baseDelay", "maxDelay", "backoffFactor"}
OptionValues(k) ==
  CASE k = "maxRetries" -> 0..MaxRetriesOpt
    [] k = "baseDelay" -> {0, 1, 300}
    [] k = "maxDelay" -> {0, 1000}
    [] k = "backoffFactor" -> {0, 1, 3}
AllOptionValues == UNION {OptionValues(k) : k \in OptionalKeys \cup {"maxRetries"}}
OptionObjects ==
  UNION {{o \in [K \cup {"maxRetries"} -> AllOptionValues] :
            \A k \in DOMAIN o : o[k] \in OptionValues(k)} : K \in SUBSET OptionalKeys}

\* maxRetriesOrOptions: a number or an options object
RetryArgs ==
  {[isNumber |-> TRUE, n |-> n, obj |-> <<>>] : n \in 0..MaxRetriesOpt}
    \cup {[isNumber |-> FALSE, n |-> 0, obj |-> o] : o \in OptionObjects}

\* "Parse options" of retry
ParseOptionsSpreadOrder(arg) ==
  IF arg.isNumber
    THEN Spread([maxRetries |-> arg.n], DEFAULT_OPTIONS)
    ELSE Spread(arg.obj, DEFAULT_OPTIONS)
ParseOptions(arg) ==
  IF arg.isNumber
    THEN Spread(DEFAULT_OPTIONS, [maxRetries |-> arg.n])
    ELSE Spread(DEFAULT_OPTIONS, arg.obj)

RECURSIVE Pow(_, _)
Pow(x, e) == IF e = 0 THEN 1 ELSE x * Pow(x, e - 1)

Min(x, y) == IF x <= y THEN x ELSE y

\* "Calculate delay with exponential backoff"
BackoffDelay(o, attempt) ==
  Min(OrDefault(o.baseDelay, FallbackBaseDelay)
        * Pow(OrDefault(o.backoffFactor, FallbackBackoffFactor), attempt),
      OrDefault(o.maxDelay, FallbackMaxDelay))

\* Values the wrapped operation may throw: Error objects (id is the object's
\* identity, text its message) and values that are not Errors.
NoValue == [kind |-> "none", id |-> 0, text |-> ""]
ThrownValues ==
  { [kind |-> "Error", id |-> 1, text |-> "timeout"],
    [kind |-> "Error", id |-> 2, text |-> "timeout"],
    [kind |-> "string", id |-> 0, text |-> "boom"],
    [kind |-> "null", id |-> 0, text |-> ""] }
ReturnValues == {"v1", "v2"}

\* String(value)
JsString(v) ==
  CASE v.kind = "string" -> v.text
    [] v.kind = "null" -> "null"
    [] v.kind = "Error" -> "Error: " \o v.text
    [] OTHER -> "undefined"

\* `error instanceof Error ? error : new Error(String(error))`; a new Error
\* is a fresh object, its identity is derived from the attempt that made it.
ToLastError(e, attempt) ==
  IF e.kind = "Error" THEN e
  ELSE [kind |-> "Error", id |-> 10 + attempt, text |-> JsString(e)]

\* `attempt === options.maxRetries`
LastAttemptEarly(attempt, o) == attempt + 1 >= o.maxRetries
LastAttempt(attempt, o) == attempt = o.maxRetries

RetryIdle ==
  [pc |-> "idle", arg |-> [isNumber |-> TRUE, n |-> 0, obj |-> <<>>],
   options |-> DEFAULT_OPTIONS, attempt |-> 0, calls |-> 0, fails |-> 0,
   delays |-> <<>>, thrown |-> NoValue, returned |-> "", lastError |-> NoValue,
   outcome |-> NoValue, result |-> ""]

\* retry(fn, maxRetriesOrOptions) is called: options are parsed, the loop
\* starts with attempt = 0 and fn is about to be invoked.
RetryCall(arg) ==
  [RetryIdle EXCEPT !.pc = "attempt", !.arg = arg, !.options = ParseOptions(arg)]

InitRetry == \E arg \in RetryArgs : rt = RetryCall(arg)

\* `return await fn()` with fn resolving to v
AttemptSucceed(v) ==
  /\ rt.pc = "attempt"
  /\ rt' = [rt EXCEPT !.pc = "resolved", !.calls = @ + 1, !.returned = v,
                    !.result = v]
  /\ UNCHANGED <<poolVars, facadeVars>>

\* fn rejects with e: the catch block of the loop
AttemptFail(e) ==
  /\ rt.pc = "attempt"
  /\ LET le == ToLastError(e, rt.attempt) IN
     IF LastAttempt(rt.attempt, rt.options)
       THEN rt' = [rt EXCEPT !.pc = "rejected", !.calls = @ + 1, !.fails = @ + 1,
                           !.thrown = e, !.lastError = le, !.outcome = le]
       ELSE rt' = [rt EXCEPT !.pc = "sleep", !.calls = @ + 1, !.fails = @ + 1,
                           !.thrown = e, !.lastError = le,
                           !.delays = Append(@, BackoffDelay(rt.options, rt.attempt))]
  /\ UNCHANGED <<poolVars, facadeVars>>

\* the setTimeout of the backoff wait fires: attempt++ and the loop condition
WakeUp ==
  /\ rt.pc = "sleep"
  /\ IF rt.attempt + 1 <= rt.options.maxRetries
       THEN rt' = [rt EXCEPT !.pc = "attempt", !.attempt = @ + 1]
       ELSE rt' = [rt EXCEPT !.pc = "rejected", !.attempt = @ + 1,
                           !.outcome = rt.lastError]
  /\ UNCHANGED <<poolVars, facadeVars>>

NextRetry ==
  \/ \E v \in ReturnValues : AttemptSucceed(v)
  \/ \E e \in ThrownValues : AttemptFail(e)
  \/ WakeUp

(***************************************************************************)
(* BitrefillBrowser (the checkout session driver)                          *)
(***************************************************************************)

\* DEFAULT_OPTIONS of bitrefill.ts (the options the model uses)
DRIVER_DEFAULT_OPTIONS == [timeout |-> 30000, maxRetries |-> 3]

\* the literal of `this.options.maxRetries || 3`
FallbackStepRetries == 3

\* constructor(options): no handle is set
NewDriver(options) ==
  [browser |-> "null", page |-> FALSE, frameHandle |-> FALSE,
   options |-> Spread(DRIVER_DEFAULT_OPTIONS, options)]

NoBrowsers == [launched |-> 0, closeCalls |-> 0, closed |-> 0]

MkError(text) == [kind |-> "Error", id |-> 1, text |-> text]

\* The awaited calls of initialize() in program order.  All of them can
\* reject; getAttribute can also yield no src and frames.find no frame.
InitStages ==
  <<"launch", "newContext", "newPage", "goto", "waitForSelector",
    "getAttribute", "findFrame">>

InitStageError(stage) ==
  CASE stage = "getAttribute" -> MkError("Failed to find iframe URL")
    [] stage = "findFrame" -> MkError("Failed to access iframe content")
    [] OTHER -> MkError(stage \o " failed")

\* close(): closes the browser and clears the three handles when a browser
\* handle is set; a rejecting browser.close() leaves the handles as they are.
CloseDriverKeepsFrame(dr, br, closeOk) ==
  IF dr.browser = "open"
    THEN IF closeOk
           THEN [driver |-> [dr EXCEPT !.browser = "null", !.page = FALSE],
                 browsers |-> [br EXCEPT !.closeCalls = @ + 1, !.closed = @ + 1],
                 threw |-> FALSE]
           ELSE [driver |-> dr, browsers |-> [br EXCEPT !.closeCalls = @ + 1], threw |-> TRUE]
    ELSE [driver |-> dr, browsers |-> br, threw |-> FALSE]
CloseDriver(dr, br, closeOk) ==
  IF dr.browser = "open"
    THEN IF closeOk
           THEN [driver |-> [dr EXCEPT !.browser = "null", !.page = FALSE,
                                  !.frameHandle = FALSE],
                 browsers |-> [br EXCEPT !.closeCalls = @ + 1, !.closed = @ + 1],
                 threw |-> FALSE]
           ELSE [driver |-> dr, browsers |-> [br EXCEPT !.closeCalls = @ + 1], threw |-> TRUE]
    ELSE [driver |-> dr, browsers |-> br, threw |-> FALSE]

\* the catch block of initialize(): "Clean up resources on error"
InitCleanupKeepsHandle(dr, br, closeOk) ==
  IF dr.browser = "open"
    THEN IF closeOk
           THEN [driver |-> [dr EXCEPT !.page = FALSE, !.frameHandle = FALSE],
                 browsers |-> [br EXCEPT !.closeCalls = @ + 1, !.closed = @ + 1],
                 threw |-> FALSE]
           ELSE [driver |-> dr, browsers |-> [br EXCEPT !.closeCalls = @ + 1], threw |-> TRUE]
    ELSE [driver |-> [dr EXCEPT !.page = FALSE, !.frameHandle = FALSE],
          browsers |-> br, threw |-> FALSE]
InitCleanup(dr, br, closeOk) ==
  IF dr.browser = "open"
    THEN IF closeOk
           THEN [driver |-> [dr EXCEPT !.browser = "null", !.page = FALSE,
                                  !.frameHandle = FALSE],
                 browsers |-> [br EXCEPT !.closeCalls = @ + 1, !.closed = @ + 1],
                 threw |-> FALSE]
           ELSE [driver |-> dr, browsers |-> [br EXCEPT !.closeCalls = @ + 1], threw |-> TRUE]
    ELSE [driver |-> [dr EXCEPT !.page = FALSE, !.frameHandle = FALSE],
          browsers |-> br, threw |-> FALSE]

\* `if (!this.frameHandle) throw new Error("Browser not initialized")`, the
\* first statement of the three step methods and of completePurchase
NotInitializedNever(dr) == FALSE
NotInitialized(dr) == ~dr.frameHandle

\* the handles after one awaited call of initialize() has resolved
AfterInitStage(stage, dr) ==
  CASE stage = "launch" -> [dr EXCEPT !.browser = "open"]
    [] stage = "newPage" -> [dr EXCEPT !.page = TRUE]
    [] stage = "findFrame" -> [dr EXCEPT !.frameHandle = TRUE]
    [] OTHER -> dr

\* chromium.launch() starts one more browser process
AfterInitStageBrowsers(stage, br) ==
  IF stage = "launch" THEN [br EXCEPT !.launched = @ + 1] ELSE br

\* `retry(..., this.options.maxRetries || 3)` of the three step methods
StepRetryOptions(dr) ==
  ParseOptions([isNumber |-> TRUE,
                n |-> OrDefault(dr.options.maxRetries, FallbackStepRetries),
                obj |-> <<>>])

(***************************************************************************)
(* purchaseGiftCard (the orchestration facade)                             *)
(***************************************************************************)

\* DEFAULT_OPTIONS of the purchase API
FACADE_DEFAULT_OPTIONS == [timeout |-> 30000, maxRetries |-> 3]

\* the driver methods in the order the try block awaits them
FacadeSequenceSwapped ==
  <<"initialize", "selectPaymentMethod", "navigateToProduct", "getDepositInfo">>
FacadeSequence ==
  <<"initialize", "navigateToProduct", "selectPaymentMethod", "getDepositInfo">>

PaymentMethods == {"usdc_base", "zcash"}

\* what the clipboard reads of getDepositInfo may yield
Addresses == {"t1abc...xyz", ""}
Amounts == {"51.47", ""}

\* the status callback: absent, well behaved, or throwing on one status
Callbacks ==
  {"none", "ok", "throwsOnINITIALIZED", "throwsOnNAVIGATING_CHECKOUT",
   "throwsOnAWAITING_PAYMENT"}

FacadeOptionObjects ==
  {<<>>} \cup {[maxRetries |-> n] : n \in 0..MaxStepRetriesOpt}

FacadeInputs ==
  [namesGiven : BOOLEAN, callback : Callbacks, paymentMethod : PaymentMethods,
   options : FacadeOptionObjects]

NoResult == [status |-> "none", depositInfo |-> <<>>, error |-> ""]
NoDeposit == [address |-> "", amount |-> "", paymentMethod |-> ""]

FacadeIdle ==
  [pc |-> "idle",
   input |-> [namesGiven |-> TRUE, callback |-> "none",
              paymentMethod |-> "usdc_base", options |-> <<>>],
   merged |-> FACADE_DEFAULT_OPTIONS,
   step |-> 0, sub |-> "none", stage |-> 0, attempt |-> 0,
   invoked |-> <<>>, succeeded |-> <<>>, statusLog |-> <<>>,
   err |-> NoValue, deposit |-> NoDeposit,
   pending |-> NoResult, result |-> NoResult, raised |-> NoValue]

DriverIdle == NewDriver(<<>>)

\* purchaseGiftCard(options, statusCallback) is called: options are merged
FacadeCall(in) ==
  [FacadeIdle EXCEPT !.pc = "identity", !.input = in,
                     !.merged = Spread(FACADE_DEFAULT_OPTIONS, in.options)]

InitFacade ==
  /\ \E in \in FacadeInputs : fa = FacadeCall(in)
  /\ drv = DriverIdle
  /\ brs = NoBrowsers

\* `error instanceof Error ? error.message : String(error)`
ErrorMessageBlank(e) == ""
ErrorMessage(e) == IF e.kind = "Error" THEN e.text ELSE JsString(e)

\* control reaches the catch block with error e
ToCatch(fr, e) == [fr EXCEPT !.pc = "catch", !.err = e, !.sub = "none"]

\* updateStatus(status) with the given callback: the log after the call and
\* whether the callback threw
UpdateStatus(fr, status) ==
  IF fr.input.callback = "none"
    THEN [log |-> fr.statusLog, threw |-> FALSE]
    ELSE [log |-> Append(fr.statusLog, status),
          threw |-> fr.input.callback = "throwsOn" \o status]

\* "Generate or use provided name information": generateHumanName is called
\* when a name part is missing and may throw; this is outside the try block.
\* Then the BitrefillBrowser is constructed.
ResolveIdentity ==
  /\ fa.pc = "identity"
  /\ \E ok \in BOOLEAN :
       /\ fa.input.namesGiven => ok
       /\ IF ok
            THEN /\ fa' = [fa EXCEPT !.pc = "try"]
                 /\ drv' = NewDriver([timeout |-> fa.merged.timeout,
                                    maxRetries |-> fa.merged.maxRetries])
            ELSE /\ fa' = [fa EXCEPT !.pc = "threw",
                                   !.raised = MkError("name generation failed")]
                 /\ drv' = drv
  /\ UNCHANGED <<poolVars, rt, api, cb, hu, dc, brs>>

\* updateStatus(INITIALIZED); updateStatus(NAVIGATING_CHECKOUT)
ReportStart ==
  /\ fa.pc = "try"
  /\ LET u1 == UpdateStatus(fa, "INITIALIZED")
         f1 == [fa EXCEPT !.statusLog = u1.log]
         u2 == UpdateStatus(f1, "NAVIGATING_CHECKOUT")
         f2 == [f1 EXCEPT !.statusLog = u2.log]
     IN  fa' = IF u1.threw THEN ToCatch(f1, MkError("callback failed"))
              ELSE IF u2.threw THEN ToCatch(f2, MkError("callback failed"))
              ELSE [f2 EXCEPT !.pc = "step", !.step = 1, !.sub = "enter"]
  /\ UNCHANGED <<poolVars, rt, api, cb, hu, dc, drv, brs>>

CurrentStep == FacadeSequence[fa.step]

\* the facade awaits browser.initialize()
EnterInitialize ==
  /\ fa.pc = "step" /\ fa.sub = "enter" /\ CurrentStep = "initialize"
  /\ fa' = [fa EXCEPT !.sub = "init", !.stage = 1, !.invoked = Append(@, CurrentStep)]
  /\ UNCHANGED <<poolVars, rt, api, cb, hu, dc, drv, brs>>

\* control after the step at f.step has resolved
AfterStep(fr) ==
  LET done == [fr EXCEPT !.succeeded = Append(@, FacadeSequence[fr.step]),
                         !.sub = "enter", !.attempt = 0]
  IN  IF fr.step = 3 THEN [done EXCEPT !.pc = "report", !.step = @ + 1]
      ELSE [done EXCEPT !.step = @ + 1]

\* one awaited call of initialize() resolves
InitStageOk ==
  /\ fa.pc = "step" /\ fa.sub = "init"
  /\ LET stage == InitStages[fa.stage] IN
     /\ drv' = AfterInitStage(stage, drv)
     /\ brs' = AfterInitStageBrowsers(stage, brs)
     /\ fa' = IF fa.stage = Len(InitStages)
               THEN [fa EXCEPT !.sub = "consent"]
               ELSE [fa EXCEPT !.stage = @ + 1]
  /\ UNCHANGED <<poolVars, rt, api, cb, hu, dc>>

\* one awaited call of initialize() rejects (or yields no src / no frame):
\* control enters the catch block of initialize()
InitStageFail ==
  /\ fa.pc = "step" /\ fa.sub = "init"
  /\ fa' = [fa EXCEPT !.sub = "initCatch", !.err = InitStageError(InitStages[fa.stage])]
  /\ UNCHANGED <<poolVars, rt, api, cb, hu, dc, drv, brs>>

\* the catch block of initialize(): cleanup, then re-throw; a rejecting
\* browser.close() replaces the error and skips the rest of the block
InitCatch ==
  /\ fa.pc = "step" /\ fa.sub = "initCatch"
  /\ \E closeOk \in BOOLEAN :
       LET c == InitCleanup(drv, brs, closeOk) IN
       /\ (drv.browser # "open") => closeOk
       /\ drv' = c.driver
       /\ brs' = c.browsers
       /\ fa' = ToCatch(fa, IF c.threw THEN MkError("close failed") ELSE fa.err)
  /\ UNCHANGED <<poolVars, rt, api, cb, hu, dc>>

\* the rest of initialize() after the frame handle is stored: the search
\* input wait, handleCookieBanner and the exploration; their errors are
\* caught and logged inside initialize()
InitConsent ==
  /\ fa.pc = "step" /\ fa.sub = "consent"
  /\ fa' = AfterStep(fa)
  /\ UNCHANGED <<poolVars, rt, api, cb, hu, dc, drv, brs>>

\* the facade awaits navigateToProduct / selectPaymentMethod /
\* getDepositInfo: the guard in front of retry
EnterStep ==
  /\ fa.pc = "step" /\ fa.sub = "enter" /\ CurrentStep # "initialize"
  /\ LET fi == [fa EXCEPT !.invoked = Append(@, CurrentStep)] IN
     fa' = IF NotInitialized(drv)
            THEN ToCatch(fi, MkError("Browser not initialized"))
            ELSE [fi EXCEPT !.sub = "attempt", !.attempt = 0]
  /\ UNCHANGED <<poolVars, rt, api, cb, hu, dc, drv, brs>>

\* one attempt of the step's action resolves.  Without a frame handle the
\* action of navigateToProduct and selectPaymentMethod returns at once and
\* that of getDepositInfo throws.
StepAttemptOk ==
  /\ fa.pc = "step" /\ fa.sub = "attempt"
  /\ (CurrentStep = "getDepositInfo") => (drv.frameHandle /\ drv.page)
  /\ IF CurrentStep = "getDepositInfo"
       THEN \E a \in Addresses, m \in Amounts :
              LET info == [address |-> a, paymentMethod |-> fa.input.paymentMethod,
                           amount |-> m]
              IN  fa' = [fa EXCEPT !.succeeded = Append(@, CurrentStep),
                                 !.deposit = info, !.sub = "none",
                                 !.pc = "finally",
                                 !.pending = [status |-> "AWAITING_PAYMENT",
                                              depositInfo |-> info, error |-> ""]]
       ELSE fa' = AfterStep(fa)
  /\ UNCHANGED <<poolVars, rt, api, cb, hu, dc, drv, brs>>

\* one attempt of the step's action rejects: the catch block of retry
StepAttemptFail ==
  /\ fa.pc = "step" /\ fa.sub = "attempt"
  /\ (CurrentStep # "getDepositInfo") => drv.frameHandle
  /\ LET thrown == IF CurrentStep = "getDepositInfo" /\ ~(drv.frameHandle /\ drv.page)
                      THEN MkError("Browser not initialized")
                      ELSE MkError(CurrentStep \o " failed")
         e == ToLastError(thrown, fa.attempt) IN
     fa' = IF LastAttempt(fa.attempt, StepRetryOptions(drv))
            THEN ToCatch(fa, e)
            ELSE [fa EXCEPT !.sub = "sleep", !.err = e]
  /\ UNCHANGED <<poolVars, rt, api, cb, hu, dc, drv, brs>>

\* the backoff wait of the step's retry is over
StepWake ==
  /\ fa.pc = "step" /\ fa.sub = "sleep"
  /\ fa' = [fa EXCEPT !.sub = "attempt", !.attempt = @ + 1]
  /\ UNCHANGED <<poolVars, rt, api, cb, hu, dc, drv, brs>>

\* updateStatus(AWAITING_PAYMENT), before getDepositInfo is awaited
ReportAwaiting ==
  /\ fa.pc = "report"
  /\ LET u == UpdateStatus(fa, "AWAITING_PAYMENT")
         f1 == [fa EXCEPT !.statusLog = u.log]
     IN  fa' = IF u.threw THEN ToCatch(f1, MkError("callback failed"))
              ELSE [f1 EXCEPT !.pc = "step"]
  /\ UNCHANGED <<poolVars, rt, api, cb, hu, dc, drv, brs>>

\* the catch block of the facade
FacadeCatch ==
  /\ fa.pc = "catch"
  /\ fa' = [fa EXCEPT !.pc = "finally",
                    !.pending = [status |-> "ERROR", depositInfo |-> <<>>,
                                 error |-> ErrorMessage(fa.err)]]
  /\ UNCHANGED <<poolVars, rt, api, cb, hu, dc, drv, brs>>

\* (variant: the facade has no finally block)
FacadeFinallyNoClose ==
  /\ fa.pc = "finally"
  /\ fa' = [fa EXCEPT !.pc = "returned", !.result = fa.pending]
  /\ UNCHANGED <<poolVars, rt, api, cb, hu, dc, drv, brs>>

\* the finally block of the facade: await browser.close(), then complete
\* with the pending return value; a rejecting close() completes the call
\* with that rejection instead
FacadeFinally ==
  /\ fa.pc = "finally"
  /\ \E closeOk \in BOOLEAN :
       LET c == CloseDriver(drv, brs, closeOk) IN
       /\ (drv.browser # "open") => closeOk
       /\ drv' = c.driver
       /\ brs' = c.browsers
       /\ fa' = IF c.threw
                 THEN [fa EXCEPT !.pc = "threw", !.raised = MkError("close failed")]
                 ELSE [fa EXCEPT !.pc = "returned", !.result = fa.pending]
  /\ UNCHANGED <<poolVars, rt, api, cb, hu, dc>>

NextFacade ==
  \/ ResolveIdentity
  \/ ReportStart
  \/ EnterInitialize
  \/ InitStageOk
  \/ InitStageFail
  \/ InitCatch
  \/ InitConsent
  \/ EnterStep
  \/ StepAttemptOk
  \/ StepAttemptFail
  \/ StepWake
  \/ ReportAwaiting
  \/ FacadeCatch
  \/ FacadeFinally

(***************************************************************************)
(* BitrefillBrowser driven directly: a caller invokes its methods one      *)
(* after the other, in any order, each call awaited before the next        *)
(***************************************************************************)

StepMethods == {"navigateToProduct", "selectPaymentMethod", "getDepositInfo"}

Denominations == {"50"}

\* the argument values of a step method
StepArgs(m) == IF m = "navigateToProduct" THEN Denominations ELSE PaymentMethods

\* Texts as sequences of characters.  What the page's copy buttons put on
\* the clipboard, and what the clipboard holds before the first copy.
PageAddressTexts == {<<"t", "1">>, <<"t", "1", " ">>}
PageAmountTexts == {<<"5", "1">>}
InitialClipboards == {<<>>, <<" ">>}

IsSpace(c) == c = " "

\* String.prototype.trim()
RECURSIVE TrimStart(_)
TrimStart(s) ==
  IF s # <<>> /\ IsSpace(Head(s)) THEN TrimStart(Tail(s)) ELSE s
RECURSIVE TrimEnd(_)
TrimEnd(s) ==
  IF s # <<>> /\ IsSpace(s[Len(s)]) THEN TrimEnd(SubSeq(s, 1, Len(s) - 1)) ELSE s
Trim(s) == TrimEnd(TrimStart(s))

NoDepositInfo == [address |-> <<>>, paymentMethod |-> "none", amount |-> <<>>]

\* What the two required interactions of a step's last attempt returned:
\* humanType of the denomination and the add-to-cart click for
\* navigateToProduct, the option click and the continue click for
\* selectPaymentMethod, the two copy-button clicks for getDepositInfo.  The
\* primitives return false when the interaction did not happen.
NothingDone == [first |-> FALSE, second |-> FALSE]

\* the record of a completed call: what was called on which driver state,
\* how it completed, how many attempts of its action ran and how many
\* backoff waits, and which call completed before it
NoCall ==
  [method |-> "none", arg |-> "none", outcome |-> "none", error |-> NoValue,
   thrown |-> NoValue, value |-> NoDepositInfo, attempts |-> 0, delays |-> 0,
   closeInFlight |-> "no", did |-> NothingDone,
   before |-> [driver |-> DriverIdle, browsers |-> NoBrowsers, done |-> {}],
   prior |-> [method |-> "none", outcome |-> "none"]]

DriverCallIdle ==
  [pc |-> "idle", method |-> "none", arg |-> "none", stage |-> 0,
   attempt |-> 0, attempts |-> 0, delays |-> 0, err |-> NoValue,
   thrown |-> NoValue, closeInFlight |-> "no", did |-> NothingDone,
   before |-> [driver |-> DriverIdle, browsers |-> NoBrowsers, done |-> {}],
   clipboard |-> <<>>, calls |-> 0, done |-> {}, last |-> NoCall]

DriverOptionObjects ==
  {<<>>} \cup {[maxRetries |-> n] : n \in 0..MaxStepRetriesOpt}

\* new BitrefillBrowser(options)
InitDriver ==
  /\ \E o \in DriverOptionObjects : drv = NewDriver(o)
  /\ brs = NoBrowsers
  /\ \E c \in InitialClipboards : dc = [DriverCallIdle EXCEPT !.clipboard = c]

\* method m is called with argument a on driver dr
BeginCall(d, m, a, dr, br) ==
  [d EXCEPT !.method = m, !.arg = a, !.stage = 0, !.attempt = 0,
            !.attempts = 0, !.delays = 0, !.err = NoValue, !.thrown = NoValue,
            !.closeInFlight = "no", !.did = NothingDone,
            !.before = [driver |-> dr, browsers |-> br, done |-> d.done]]

\* The steps that have resolved on the session the driver holds: a new
\* session begins with initialize() and ends with close().
DoneAfter(d, outcome) ==
  IF d.method = "initialize" THEN {}
  ELSE IF d.method = "close" /\ outcome = "resolved" THEN {}
  ELSE IF d.method \in StepMethods /\ outcome = "resolved"
    THEN d.done \cup {d.method}
  ELSE d.done

\* the promise of the call in progress settles
FinishCall(d, outcome, error, value) ==
  [d EXCEPT !.pc = "idle", !.method = "none", !.arg = "none", !.stage = 0,
            !.attempt = 0, !.attempts = 0, !.delays = 0, !.err = NoValue,
            !.thrown = NoValue, !.closeInFlight = "no", !.did = NothingDone,
            !.before = [driver |-> DriverIdle, browsers |-> NoBrowsers, done |-> {}],
            !.calls = @ + 1,
            !.done = DoneAfter(d, outcome),
            !.last = [method |-> d.method, arg |-> d.arg, outcome |-> outcome,
                      error |-> error, thrown |-> d.thrown, value |-> value,
                      attempts |-> d.attempts, delays |-> d.delays,
                      closeInFlight |-> d.closeInFlight, did |-> d.did,
                      before |-> d.before,
                      prior |-> [method |-> d.last.method,
                                 outcome |-> d.last.outcome]]]

CanCall == dc.pc = "idle" /\ dc.calls < MaxDriverCalls

\* initialize() is called: the try block is entered, once
DriverInitialize ==
  /\ CanCall
  /\ dc' = [BeginCall(dc, "initialize", "none", drv, brs)
              EXCEPT !.pc = "init", !.stage = 1, !.attempts = 1]
  /\ UNCHANGED <<poolVars, rt, api, cb, hu, fa, drv, brs>>

\* one awaited call of initialize() resolves
DriverInitStageOk ==
  /\ dc.pc = "init"
  /\ LET stage == InitStages[dc.stage] IN
     /\ drv' = AfterInitStage(stage, drv)
     /\ brs' = AfterInitStageBrowsers(stage, brs)
     /\ dc' = IF dc.stage = Len(InitStages)
               THEN [dc EXCEPT !.pc = "consent"]
               ELSE [dc EXCEPT !.stage = @ + 1]
  /\ UNCHANGED <<poolVars, rt, api, cb, hu, fa>>

\* one awaited call of initialize() rejects (or yields no src / no frame):
\* control enters the catch block of initialize()
DriverInitStageFail ==
  /\ dc.pc = "init"
  /\ LET e == InitStageError(InitStages[dc.stage]) IN
     dc' = [dc EXCEPT !.pc = "initCatch", !.err = e, !.thrown = e]
  /\ UNCHANGED <<poolVars, rt, api, cb, hu, fa, drv, brs>>

\* the catch block of initialize(): cleanup, then `throw error`; a rejecting
\* browser.close() is what initialize() rejects with instead
DriverInitCatch ==
  /\ dc.pc = "initCatch"
  /\ \E closeOk \in BOOLEAN :
       LET c == InitCleanup(drv, brs, closeOk) IN
       /\ (drv.browser # "open") => closeOk
       /\ drv' = c.driver
       /\ brs' = c.browsers
       /\ dc' = FinishCall(dc, "rejected",
                           IF c.threw THEN MkError("close failed") ELSE dc.err,
                           NoDepositInfo)
  /\ UNCHANGED <<poolVars, rt, api, cb, hu, fa>>

\* the rest of initialize() after the frame handle is stored; the errors of
\* the search input wait and of handleCookieBanner are caught and logged
DriverInitConsent ==
  /\ dc.pc = "consent"
  /\ dc' = FinishCall(dc, "resolved", NoValue, NoDepositInfo)
  /\ UNCHANGED <<poolVars, rt, api, cb, hu, fa, drv, brs>>

\* close() is called and settles
DriverClose ==
  /\ CanCall
  /\ \E closeOk \in BOOLEAN :
       LET c == CloseDriver(drv, brs, closeOk)
           d == BeginCall(dc, "close", "none", drv, brs) IN
       /\ (drv.browser # "open") => closeOk
       /\ drv' = c.driver
       /\ brs' = c.browsers
       /\ dc' = IF c.threw
                 THEN FinishCall(d, "rejected", MkError("close failed"), NoDepositInfo)
                 ELSE FinishCall(d, "resolved", NoValue, NoDepositInfo)
  /\ UNCHANGED <<poolVars, rt, api, cb, hu, fa>>

\* navigateToProduct / selectPaymentMethod / getDepositInfo is called: the
\* guard in front of retry
DriverStep ==
  /\ CanCall
  /\ \E m \in StepMethods : \E a \in StepArgs(m) :
       LET d == BeginCall(dc, m, a, drv, brs) IN
       dc' = IF NotInitialized(drv)
               THEN FinishCall(d, "rejected", MkError("Browser not initialized"),
                               NoDepositInfo)
               ELSE [d EXCEPT !.pc = "attempt"]
  /\ UNCHANGED <<poolVars, rt, api, cb, hu, fa, drv, brs>>

\* the two copy-button clicks and clipboard reads of getDepositInfo.
\* humanClickLocator reports a failed click by returning false, which
\* getDepositInfo ignores: the clipboard then still holds its previous text.
ReadDeposit(clipboard, clicked1, text1, clicked2, text2, method) ==
  LET clip1 == IF clicked1 THEN text1 ELSE clipboard
      clip2 == IF clicked2 THEN text2 ELSE clip1
  IN  [info |-> [address |-> Trim(clip1), paymentMethod |-> method,
                 amount |-> Trim(clip2)],
       clipboard |-> clip2]

\* one attempt of the step's action resolves.  Without a frame handle the
\* action of navigateToProduct and selectPaymentMethod returns at once and
\* that of getDepositInfo throws.  The values the interaction primitives
\* return (c1, c2) are not looked at by any of the three actions.
DriverAttemptOk ==
  /\ dc.pc = "attempt"
  /\ (dc.method = "getDepositInfo") => (drv.frameHandle /\ drv.page)
  /\ \E c1 \in BOOLEAN, c2 \in BOOLEAN :
       LET d == [dc EXCEPT !.attempts = @ + 1,
                           !.did = [first |-> c1, second |-> c2]] IN
       IF dc.method = "getDepositInfo"
         THEN \E a \in PageAddressTexts, m \in PageAmountTexts :
                LET rd == ReadDeposit(dc.clipboard, c1, a, c2, m, dc.arg) IN
                dc' = [FinishCall(d, "resolved", NoValue, rd.info)
                         EXCEPT !.clipboard = rd.clipboard]
         ELSE /\ ~drv.frameHandle => (~c1 /\ ~c2)
              /\ dc' = FinishCall(d, "resolved", NoValue, NoDepositInfo)
  /\ UNCHANGED <<poolVars, rt, api, cb, hu, fa, drv, brs>>

\* one attempt of the step's action rejects: the catch block of retry.  A
\* getDepositInfo attempt may have copied a text before it failed.
DriverAttemptFail ==
  /\ dc.pc = "attempt"
  /\ (dc.method # "getDepositInfo") => drv.frameHandle
  /\ \E clip \in {dc.clipboard} \cup
                  (IF dc.method = "getDepositInfo" /\ drv.frameHandle /\ drv.page
                     THEN PageAddressTexts \cup PageAmountTexts ELSE {}) :
       LET thrown == IF dc.method = "getDepositInfo" /\ ~(drv.frameHandle /\ drv.page)
                        THEN MkError("Browser not initialized")
                        ELSE MkError(dc.method \o " failed")
           e == ToLastError(thrown, dc.attempt)
           d == [dc EXCEPT !.attempts = @ + 1, !.err = e, !.thrown = thrown,
                           !.clipboard = clip] IN
       dc' = IF LastAttempt(dc.attempt, StepRetryOptions(drv))
               THEN FinishCall(d, "rejected", e, NoDepositInfo)
               ELSE [d EXCEPT !.pc = "sleep"]
  /\ UNCHANGED <<poolVars, rt, api, cb, hu, fa, drv, brs>>

\* the backoff wait of the step's retry is over
DriverWake ==
  /\ dc.pc = "sleep"
  /\ dc' = [dc EXCEPT !.pc = "attempt", !.attempt = @ + 1, !.delays = @ + 1]
  /\ UNCHANGED <<poolVars, rt, api, cb, hu, fa, drv, brs>>

\* close() is called, and settles, while a step call is in flight on the
\* same driver: before an attempt of its action starts or during the
\* backoff wait between two attempts
DriverCloseInFlight ==
  /\ dc.pc \in {"attempt", "sleep"}
  /\ dc.closeInFlight = "no"
  /\ \E closeOk \in BOOLEAN :
       LET c == CloseDriver(drv, brs, closeOk) IN
       /\ (drv.browser # "open") => closeOk
       /\ drv' = c.driver
       /\ brs' = c.browsers
       /\ dc' = [dc EXCEPT !.closeInFlight =
                              IF c.threw THEN "rejected" ELSE "completed",
                            !.done = IF c.threw THEN @ ELSE {}]
  /\ UNCHANGED <<poolVars, rt, api, cb, hu, fa>>

\* what completePurchase() throws
CompletePurchaseUnguarded(dr) == MkError("Not implemented yet")
CompletePurchaseError(dr) ==
  IF NotInitialized(dr) THEN MkError("Browser not initialized")
  ELSE MkError("Not implemented yet")

\* completePurchase() is called: it throws before its first await
DriverCompletePurchase ==
  /\ CanCall
  /\ dc' = FinishCall(BeginCall(dc, "completePurchase", "none", drv, brs),
                      "rejected", CompletePurchaseError(drv), NoDepositInfo)
  /\ UNCHANGED <<poolVars, rt, api, cb, hu, fa, drv, brs>>

NextDriver ==
  \/ DriverInitialize
  \/ DriverInitStageOk
  \/ DriverInitStageFail
  \/ DriverInitCatch
  \/ DriverInitConsent
  \/ DriverClose
  \/ DriverStep
  \/ DriverAttemptOk
  \/ DriverAttemptFail
  \/ DriverWake
  \/ DriverCloseInFlight
  \/ DriverCompletePurchase

(***************************************************************************)
(* The API server: app.post("/api/checkout")                               *)
(***************************************************************************)

\* JSON values of the request body, with their JavaScript type
Absent == [t |-> "undefined", num |-> 0, str |-> ""]
JsNull == [t |-> "null", num |-> 0, str |-> ""]
Num(n) == [t |-> "number", num |-> n, str |-> ""]
Str(text) == [t |-> "string", num |-> 0, str |-> text]
Bool(x) == [t |-> "boolean", num |-> IF x THEN 1 ELSE 0, str |-> ""]

\* the values JavaScript treats as false in `x || y` and `!x`
Falsy(x) ==
  \/ x.t \in {"undefined", "null"}
  \/ x = Num(0)
  \/ x = Str("")
  \/ x = Bool(FALSE)

\* `x || y`
JsOr(x, y) == IF Falsy(x) THEN y ELSE x

\* enum CardDenomination: the values the documentation lists
CardDenominationNumbers == {Num(25), Num(50), Num(100), Num(200)}

\* Object.values(CardDenomination): a numeric enum compiles to an object
\* that also maps each number back to its name, so the names are values too
CardDenominationValues ==
  {Str("VISA_25"), Str("VISA_50"), Str("VISA_100"), Str("VISA_200")}
    \cup CardDenominationNumbers

\* Object.values(PaymentMethod): a string enum has no reverse mapping
PaymentMethodValues == {Str("usdc_base"), Str("zcash")}

VISA_50 == Num(50)
BASE_USDC == Str("usdc_base")

\* the request bodies explored: each field absent, valid, or one of several
\* invalid values; a body may also fail to parse as JSON
BodyDenominations ==
  {Absent, JsNull, Num(0), Num(25), Num(50), Num(75), Num(200), Str(""),
   Str("50"), Str("VISA_25")}
BodyPaymentMethods ==
  {Absent, JsNull, Str(""), Str("usdc_base"), Str("zcash"), Str("btc"),
   Str("BASE_USDC"), Num(0)}
BodyHeadless == {Absent, Bool(TRUE), Bool(FALSE)}
ApiBodies ==
  [parses : {TRUE}, denomination : BodyDenominations,
   paymentMethod : BodyPaymentMethods, headless : BodyHeadless]
    \cup {[parses |-> FALSE, denomination |-> Absent, paymentMethod |-> Absent,
           headless |-> Absent]}

NoResponse == [status |-> 0, error |-> "", deposit |-> NoDeposit]

ApiIdle ==
  [pc |-> "idle",
   body |-> [parses |-> TRUE, denomination |-> Absent, paymentMethod |-> Absent,
             headless |-> Absent],
   denomination |-> Absent, paymentMethod |-> Absent, headless |-> TRUE,
   added |-> 0, started |-> 0, response |-> NoResponse]

\* a POST /api/checkout request has arrived
InitApi == \E body \in ApiBodies : api = [ApiIdle EXCEPT !.pc = "received", !.body = body]

Respond(a, status, error, deposit) ==
  [a EXCEPT !.pc = "responded",
            !.response = [status |-> status, error |-> error, deposit |-> deposit]]

\* the handler up to `await queue.add(...)`: parse the body, apply the
\* defaults, validate, and add the checkout task to the queue
ApiValidate ==
  /\ api.pc = "received"
  /\ LET denomination == JsOr(api.body.denomination, VISA_50)
         paymentMethod == JsOr(api.body.paymentMethod, BASE_USDC)
         headless == api.body.headless # Bool(FALSE)
         a == [api EXCEPT !.denomination = denomination,
                          !.paymentMethod = paymentMethod,
                          !.headless = headless]
     IN  api' =
           IF ~api.body.parses
             THEN Respond(api, 500, "Checkout process failed", NoDeposit)
           ELSE IF denomination \notin CardDenominationValues
             THEN Respond(a, 400, "Invalid denomination", NoDeposit)
           ELSE IF paymentMethod \notin PaymentMethodValues
             THEN Respond(a, 400, "Invalid payment method", NoDeposit)
           ELSE [a EXCEPT !.pc = "queued", !.added = @ + 1]
  /\ UNCHANGED <<poolVars, rt, cb, hu, fa, drv, brs, dc>>

\* the queue starts the task: initiateCheckout is called
ApiTaskStart ==
  /\ api.pc = "queued"
  /\ api' = [api EXCEPT !.pc = "running", !.started = @ + 1]
  /\ UNCHANGED <<poolVars, rt, cb, hu, fa, drv, brs, dc>>

\* initiateCheckout resolves with the deposit information: 200
ApiTaskResolve ==
  /\ api.pc = "running"
  /\ \E a \in Addresses, m \in Amounts :
       api' = Respond(api, 200, "",
                      [address |-> a, amount |-> m,
                       paymentMethod |-> api.paymentMethod.str])
  /\ UNCHANGED <<poolVars, rt, cb, hu, fa, drv, brs, dc>>

\* initiateCheckout rejects, or the queue's timeout makes queue.add resolve
\* with undefined: control enters the catch block, 500
ApiTaskFail ==
  /\ api.pc = "running"
  /\ api' = Respond(api, 500, "Checkout process failed", NoDeposit)
  /\ UNCHANGED <<poolVars, rt, cb, hu, fa, drv, brs, dc>>

NextApi ==
  \/ ApiValidate
  \/ ApiTaskStart
  \/ ApiTaskResolve
  \/ ApiTaskFail

(***************************************************************************)
(* A WorkerPool task that runs purchaseGiftCard:                           *)
(* pool.enqueue(() => purchaseGiftCard(options, statusCallback))           *)
(***************************************************************************)

\* the id of the task
FacadeTask == 1

\* new WorkerPool(): the pool the task is given to
InitPoolFacade == NewPool(0, 0)

\* enqueue(fn) with the facade as fn
EnqueueFacade == submitted = 0 /\ Enqueue

\* task.fn() of executeTask: purchaseGiftCard is called
FacadeTaskBody ==
  /\ opState[FacadeTask] = "running"
  /\ fa.pc = "idle"
  /\ \E in \in FacadeInputs : fa' = FacadeCall(in)
  /\ UNCHANGED <<poolVars, rt, api, cb, hu, dc, drv, brs>>

\* the promise of purchaseGiftCard resolves: task.fn() resolves
FacadeTaskResolves == fa.pc = "returned" /\ OpSucceed(FacadeTask)

\* the promise of purchaseGiftCard rejects: task.fn() rejects
FacadeTaskRejects == fa.pc = "threw" /\ OpFail(FacadeTask)

\* the timer armed by executeTask fires, at any time after task.fn() was
\* called
FacadeTaskTimeout == fa.pc # "idle" /\ TimerFire(FacadeTask)

FacadeTaskRelease == Release(FacadeTask)

NextPoolFacade ==
  \/ EnqueueFacade
  \/ FacadeTaskBody
  \/ NextFacade
  \/ FacadeTaskResolves
  \/ FacadeTaskRejects
  \/ FacadeTaskTimeout
  \/ FacadeTaskRelease

(***************************************************************************)
(* The human interaction primitives of human.ts, called one after the      *)
(* other; each awaited automation call inside a primitive resolves or       *)
(* rejects                                                                  *)
(***************************************************************************)

\* the primitives that return Promise<boolean>
BooleanPrimitives ==
  {"humanMouseMove", "humanClick", "humanType", "humanClickLocator"}

\* the primitives that return Promise<void>
VoidPrimitives == {"humanScroll", "randomExploration"}

Primitives == BooleanPrimitives \cup VoidPrimitives

\* the number of window.scrollBy steps of one humanScroll
ScrollSteps == 1..MaxScrollSteps

\* The awaited calls of a primitive in program order (randomSleep cannot
\* reject and is left out).  A call named after a primitive is a nested call
\* of that primitive.
Bodies(prim) ==
  CASE prim = "humanScroll" ->
         {[i \in 1..n |-> "evaluate"] : n \in ScrollSteps}
    [] prim = "humanMouseMove" ->
         {<<"waitForSelector", "boundingBox", "evaluate">>}
    [] prim = "humanClick" ->
         {<<"waitForSelector", "humanMouseMove", "click">>}
    [] prim = "humanType" ->
         {<<"waitForSelector", "humanMouseMove", "click", "fill", "type">>,
          <<"waitForSelector", "humanMouseMove", "click", "type">>}
    [] prim = "humanClickLocator" ->
         {<<"waitFor", "elementHandle", "boundingBox", "evaluate", "click">>}
    [] OTHER -> {}

\* the calls that can resolve with null, answered by `return false`
Nullable == {"boundingBox", "elementHandle"}

\* whether the body of the primitive is inside `try { } catch { return false }`
Catches(prim) == prim \in BooleanPrimitives

\* what a call of the primitive yields when one of its awaited calls rejects
FailureResult(prim) == IF Catches(prim) THEN "false" ELSE "raised"

\* what a call of the primitive yields when all its awaited calls resolve
SuccessResult(prim) == IF prim \in BooleanPrimitives THEN "true" ELSE "void"

\* The three action types of randomExploration's loop: a humanScroll outside
\* any try, a pause, and a mouse movement (with an optional click and an
\* optional history.back()) inside try/catch.
ExploreBodies ==
  {[todo |-> <<"humanScroll">>, inTry |-> FALSE],
   [todo |-> <<>>, inTry |-> FALSE],
   [todo |-> <<"evaluate">>, inTry |-> TRUE],
   [todo |-> <<"evaluate", "humanMouseMove">>, inTry |-> TRUE],
   [todo |-> <<"evaluate", "humanMouseMove", "humanClick">>, inTry |-> TRUE],
   [todo |-> <<"evaluate", "humanMouseMove", "humanClick", "evaluate">>,
    inTry |-> TRUE]}

\* `const actions = randomInt(1, 3)`
ExploreActionCounts == 1..3

HumanIdle ==
  [pc |-> "idle", prim |-> "none", todo |-> <<>>, inTry |-> FALSE, left |-> 0,
   failed |-> FALSE, log |-> <<>>]

InitHuman == hu = HumanIdle

\* the primitive's promise settles: the call is recorded with whether one
\* of its own awaited calls failed and with what the caller got
HumanReturn(h, result) ==
  [HumanIdle EXCEPT !.log = Append(h.log, [prim |-> h.prim, failed |-> h.failed,
                                           result |-> result])]

\* the awaited calls of the current body are all done
AfterBody(h) ==
  IF h.prim = "randomExploration"
    THEN IF h.left > 0
           THEN [h EXCEPT !.pc = "exploring", !.todo = <<>>, !.inTry = FALSE]
           ELSE HumanReturn(h, "void")
    ELSE HumanReturn(h, SuccessResult(h.prim))

\* an awaited call rejected, or a nested primitive raised
OnReject(h) ==
  LET g == [h EXCEPT !.failed = TRUE, !.todo = <<>>] IN
  IF h.inTry
    THEN IF h.prim = "randomExploration" THEN AfterBody(g)
         ELSE HumanReturn(g, "false")
    ELSE HumanReturn(g, "raised")

CanCallHuman == hu.pc = "idle" /\ Len(hu.log) < MaxHumanCalls

\* humanScroll, humanMouseMove, humanClick, humanType or humanClickLocator
\* is called
HumanCall ==
  /\ CanCallHuman
  /\ \E prim \in Primitives \ {"randomExploration"} : \E body \in Bodies(prim) :
       hu' = [hu EXCEPT !.pc = "running", !.prim = prim, !.todo = body,
                        !.inTry = Catches(prim)]
  /\ UNCHANGED <<poolVars, rt, api, cb, fa, drv, brs, dc>>

\* randomExploration is called: `if (!shouldPerformAction(0.3)) return;`,
\* otherwise the number of actions is drawn
ExploreCall ==
  /\ CanCallHuman
  /\ \/ hu' = HumanReturn([hu EXCEPT !.prim = "randomExploration"], "void")
     \/ \E n \in ExploreActionCounts :
          hu' = [hu EXCEPT !.pc = "exploring", !.prim = "randomExploration",
                           !.left = n]
  /\ UNCHANGED <<poolVars, rt, api, cb, fa, drv, brs, dc>>

\* one iteration of randomExploration's loop begins: the action type is drawn
ExploreAction ==
  /\ hu.pc = "exploring"
  /\ \E b \in ExploreBodies :
       LET h == [hu EXCEPT !.pc = "running", !.todo = b.todo, !.inTry = b.inTry,
                           !.left = @ - 1] IN
       hu' = IF b.todo = <<>> THEN AfterBody(h) ELSE h
  /\ UNCHANGED <<poolVars, rt, api, cb, fa, drv, brs, dc>>

\* the awaited call at hand resolves (a nested primitive returns true)
HumanActionOk ==
  /\ hu.pc = "running"
  /\ LET h == [hu EXCEPT !.todo = Tail(@)] IN
     hu' = IF h.todo = <<>> THEN AfterBody(h) ELSE h
  /\ UNCHANGED <<poolVars, rt, api, cb, fa, drv, brs, dc>>

\* the awaited call at hand resolves with null: `return false`
HumanActionNull ==
  /\ hu.pc = "running"
  /\ Head(hu.todo) \in Nullable
  /\ hu' = HumanReturn(hu, "false")
  /\ UNCHANGED <<poolVars, rt, api, cb, fa, drv, brs, dc>>

\* The awaited call at hand fails.  A nested primitive that catches its own
\* failure returns false, which no caller in human.ts looks at; any other
\* failure is a rejection at this point of the body.
HumanActionFail ==
  /\ hu.pc = "running"
  /\ LET a == Head(hu.todo) IN
     hu' = IF a \in Primitives /\ FailureResult(a) = "false"
             THEN LET h == [hu EXCEPT !.todo = Tail(@)] IN
                  IF h.todo = <<>> THEN AfterBody(h) ELSE h
             ELSE OnReject(hu)
  /\ UNCHANGED <<poolVars, rt, api, cb, fa, drv, brs, dc>>

NextHuman ==
  \/ HumanCall
  \/ ExploreCall
  \/ ExploreAction
  \/ HumanActionOk
  \/ HumanActionNull
  \/ HumanActionFail

(***************************************************************************)
(* handleCookieBanner (the consent resolver) and the statements of         *)
(* initialize() around it                                                   *)
(***************************************************************************)

\* `const buttonSelectors = [...]`, in the order of the array
ButtonSelectors ==
  <<"button:has-text(Only selected)", "button:has-text(Accept selected)",
    "button[data-cy=accept-cookies]", "button:has-text(Accept)",
    "button.cookie-accept">>

\* What one iteration of the loop over buttonSelectors can meet: the button
\* is not in the document, the existence check rejects, frame.click rejects,
\* the click resolves and the wait for the hidden dialog times out, the
\* click resolves and the dialog disappears.
CandidateOutcomes ==
  {"missing", "existsThrows", "clickFails", "notHidden", "hidden"}

\* frame.click was called in the iteration
ClickCalled(outcome) == outcome \in {"clickFails", "notHidden", "hidden"}

\* `buttonClicked = true` was executed in the iteration
ClickResolved(outcome) == outcome \in {"notHidden", "hidden"}

ConsentIdle ==
  [pc |-> "idle", present |-> "unknown", scrolled |-> FALSE, idx |-> 0,
   tried |-> <<>>, clicks |-> <<>>, buttonClicked |-> FALSE, dismissedBy |-> 0,
   fallback |-> "no", caught |-> FALSE, result |-> "none", explored |-> "no"]

\* a BitrefillBrowser has been constructed; handleCookieBanner is not running
InitResolver ==
  /\ drv = NewDriver(<<>>)
  /\ brs = NoBrowsers
  /\ dc = DriverCallIdle
  /\ cb = ConsentIdle

\* initialize() is called on the new driver
ConsentInitialize ==
  /\ dc.calls = 0
  /\ DriverInitialize

\* `await handleCookieBanner(frame, ...)` of initialize(): the try block of
\* the resolver is entered
ConsentBegin ==
  /\ dc.pc = "consent"
  /\ cb.pc = "idle"
  /\ cb' = [ConsentIdle EXCEPT !.pc = "check"]
  /\ UNCHANGED <<poolVars, rt, api, hu, fa, drv, brs, dc>>

\* the catch block that encloses the whole body of handleCookieBanner: the
\* error is logged and the function returns
ResolverCatch(c) == [c EXCEPT !.pc = "after", !.caught = TRUE, !.result = "returned"]

\* "Check if cookie banner exists": absent -> return; the check can reject
ConsentCheck ==
  /\ cb.pc = "check"
  /\ \/ cb' = [cb EXCEPT !.present = "absent", !.pc = "after", !.result = "returned"]
     \/ cb' = [cb EXCEPT !.present = "present", !.pc = "scroll"]
     \/ cb' = ResolverCatch(cb)
  /\ UNCHANGED <<poolVars, rt, api, hu, fa, drv, brs, dc>>

\* `await humanScroll(frame, 'down', ...)`: a failing scroll is whatever
\* humanScroll makes of it
ConsentScroll ==
  /\ cb.pc = "scroll"
  /\ LET c == [cb EXCEPT !.scrolled = TRUE]
         next == [c EXCEPT !.pc = "candidate", !.idx = 1] IN
     \/ cb' = next
     \/ cb' = IF FailureResult("humanScroll") = "raised" THEN ResolverCatch(c)
              ELSE next
  /\ UNCHANGED <<poolVars, rt, api, hu, fa, drv, brs, dc>>

\* the end of one iteration of `for (const buttonSelector of buttonSelectors)`:
\* `break` after a click followed by the dialog disappearing, the inner catch
\* and the next selector after a rejection
AfterCandidateNoBreak(c, outcome) ==
  LET d == [c EXCEPT !.tried = Append(@, outcome),
                     !.clicks = IF ClickCalled(outcome) THEN Append(@, c.idx) ELSE @,
                     !.buttonClicked = @ \/ ClickResolved(outcome),
                     !.dismissedBy = IF outcome = "hidden" /\ @ = 0 THEN c.idx ELSE @]
  IN  IF c.idx = Len(ButtonSelectors)
        THEN [d EXCEPT !.pc = "afterLoop"]
        ELSE [d EXCEPT !.idx = @ + 1]
AfterCandidate(c, outcome) ==
  LET d == [c EXCEPT !.tried = Append(@, outcome),
                     !.clicks = IF ClickCalled(outcome) THEN Append(@, c.idx) ELSE @,
                     !.buttonClicked = @ \/ ClickResolved(outcome),
                     !.dismissedBy = IF outcome = "hidden" /\ @ = 0 THEN c.idx ELSE @]
  IN  IF outcome = "hidden" \/ c.idx = Len(ButtonSelectors)
        THEN [d EXCEPT !.pc = "afterLoop"]
        ELSE [d EXCEPT !.idx = @ + 1]

\* one iteration of the loop over buttonSelectors (humanMouseMove, called
\* before the click, returns false on failure and its result is not used)
ConsentCandidate ==
  /\ cb.pc = "candidate"
  /\ \E outcome \in CandidateOutcomes : cb' = AfterCandidate(cb, outcome)
  /\ UNCHANGED <<poolVars, rt, api, hu, fa, drv, brs, dc>>

\* `if (!buttonClicked) { await frame.evaluate(...) }`: one evaluate sets the
\* consent cookie and hides the dialog; then the resolver returns
ConsentFallback ==
  /\ cb.pc = "afterLoop"
  /\ IF ~cb.buttonClicked
       THEN \/ cb' = [cb EXCEPT !.fallback = "done", !.pc = "after",
                                !.result = "returned"]
            \/ cb' = ResolverCatch([cb EXCEPT !.fallback = "threw"])
       ELSE cb' = [cb EXCEPT !.pc = "after", !.result = "returned"]
  /\ UNCHANGED <<poolVars, rt, api, hu, fa, drv, brs, dc>>

\* randomExploration raises when one of its actions outside a try does
ExplorationCanRaise ==
  \E b \in ExploreBodies :
    /\ ~b.inTry
    /\ \E i \in 1..Len(b.todo) :
         b.todo[i] \in Primitives => FailureResult(b.todo[i]) = "raised"

\* the catch block of initialize() around handleCookieBanner and the
\* exploration: "Continuing with initialization..."
InitConsentCatchRethrows(d, e) == [d EXCEPT !.pc = "initCatch", !.err = e, !.thrown = e]
InitConsentCatch(d, e) == d

\* `if (shouldPerformAction(0.7)) { ...; await randomExploration(...) }`
\* after the resolver has returned, or the catch block when it has raised
InitializeExplore ==
  /\ cb.pc = "after"
  /\ IF cb.result = "raised"
       THEN /\ cb' = [cb EXCEPT !.pc = "done"]
            /\ dc' = InitConsentCatch(dc, MkError("handleCookieBanner failed"))
       ELSE \/ cb' = [cb EXCEPT !.pc = "done", !.explored = "skipped"] /\ dc' = dc
            \/ cb' = [cb EXCEPT !.pc = "done", !.explored = "returned"] /\ dc' = dc
            \/ /\ ExplorationCanRaise
               /\ cb' = [cb EXCEPT !.pc = "done", !.explored = "raised"]
               /\ dc' = InitConsentCatch(dc, MkError("randomExploration failed"))
  /\ UNCHANGED <<poolVars, rt, api, hu, fa, drv, brs>>

\* "Browser initialization complete": initialize() resolves
ConsentInitializeCompletes ==
  /\ cb.pc = "done"
  /\ DriverInitConsent

NextConsent ==
  \/ ConsentInitialize
  \/ DriverInitStageOk
  \/ DriverInitStageFail
  \/ DriverInitCatch
  \/ ConsentBegin
  \/ ConsentCheck
  \/ ConsentScroll
  \/ ConsentCandidate
  \/ ConsentFallback
  \/ InitializeExplore
  \/ ConsentInitializeCompletes

(***************************************************************************)
(* Properties of the WorkerPool (checked under SpecPool)                   *)
(***************************************************************************)

\* C1: for every configured maxConcurrency and any pattern of enqueue calls,
\* completions, failures and timeouts, the active-task count never exceeds
\* maxConcurrency.
C1_ActiveNeverExceedsMax == activeWorkers <= maxConcurrency

\* the pool is saturated again after a timed-out task released its slot
C1_Witness ==
  /\ activeWorkers = maxConcurrency
  /\ Len(queue) > 0
  /\ \E t \in Tasks : future[t] = "rejected_timeout" /\ released[t]

RunningOps == {t \in Tasks : opState[t] = "running"}

\* C2: the number of operations the pool has started and that have not yet
\* finished never exceeds maxConcurrency, also after a task's timeout fired.
C2_RunningOpsBounded == Cardinality(RunningOps) <= maxConcurrency

\* C10: an enqueue made while the pending count equals maxQueueSize is
\* rejected with the queue-full error, starts nothing and changes neither the
\* active nor the pending count; the operation of a rejected submission is
\* never started and the pending count never exceeds maxQueueSize.
C10_QueueFullRejects ==
  /\ [](Len(queue) <= maxQueueSize)
  /\ [](\A t \in Tasks : future[t] = "rejected_full" =>
           opState[t] = "notstarted" /\ timer[t] = "unset")
  /\ [][(submitted' = submitted + 1 /\ Len(queue) = maxQueueSize) =>
          /\ future'[submitted'] = "rejected_full"
          /\ queue' = queue
          /\ activeWorkers' = activeWorkers
          /\ opState' = opState
          /\ timer' = timer]_vars

\* a submission was rejected and the pool is still full and saturated
C10_Witness ==
  /\ \E t \in Tasks : future[t] = "rejected_full"
  /\ Len(queue) = maxQueueSize
  /\ activeWorkers = maxConcurrency

Started(t) == opState[t] # "notstarted"
Admitted(t) == future[t] \notin {"none", "rejected_full"}

C12_StartOrderIsFifo ==
  /\ \A x, y \in Tasks :
       (x < y /\ Admitted(x) /\ Admitted(y) /\ Started(y)) => Started(x)
  /\ \A i, j \in 1..Len(queue) : i < j => queue[i] < queue[j]
  /\ \A i \in 1..Len(queue) : ~Started(queue[i])

\* two tasks waited behind a saturated pool; the older one has been started
\* and the younger one is still pending
C12_Witness ==
  /\ maxConcurrency = 1
  /\ released[1]
  /\ opState[2] = "running"
  /\ queue = <<3>>

\* C13: every admitted task is eventually started and its future eventually
\* settles (timers fire and settlements are processed); a task submitted
\* while a slot is free starts at once, a task submitted to a saturated pool
\* does not, and a task whose operation finishes first resolves with the
\* operation's result.
C13_AdmittedTasksSettle ==
  /\ \A t \in Tasks : (future[t] = "pending") ~> Started(t)
  /\ \A t \in Tasks : (future[t] = "pending") ~> Settled(t)
  /\ [][(submitted' = submitted + 1 /\ future'[submitted'] = "pending") =>
          (opState'[submitted'] = "running") <=> (activeWorkers < maxConcurrency)]_vars
  /\ [][\A t \in Tasks :
          (opState[t] = "running" /\ opState'[t] = "ok" /\ future[t] = "pending")
          => future'[t] = "resolved"]_vars

\* Scenario A: concurrency 2, three tasks, all three resolved
C13_Witness ==
  /\ maxConcurrency = 2
  /\ submitted = 3
  /\ \A t \in 1..3 : future[t] = "resolved" /\ released[t]

\* C23: the pool is work-conserving: no task is pending while the active
\* count is below maxConcurrency, and a slot freed by a completion, failure
\* or timeout is taken at once by the head of the pending list.
C23_WorkConserving ==
  /\ [](queue # <<>> => activeWorkers >= maxConcurrency)
  /\ [][\A t \in Tasks :
          (~released[t] /\ released'[t] /\ queue # <<>>) =>
            /\ opState[Head(queue)] = "notstarted"
            /\ opState'[Head(queue)] = "running"
            /\ queue' = Tail(queue)
            /\ activeWorkers' = maxConcurrency]_vars

\* the slot of a failed task was reused while another task is still pending
C23_Witness ==
  /\ maxConcurrency = 2
  /\ future[1] = "rejected_error" /\ released[1]
  /\ opState[2] = "running" /\ opState[3] = "running"
  /\ queue = <<4>>
  /\ activeWorkers = 2

\* C24: a task's future settles once, with whichever of the operation's
\* outcome and the timeout happens first.  The timeout does not stop the
\* operation, and the later of the two events changes neither the future
\* nor the active count nor the pending list.
C24_FirstEventSettles ==
  /\ [][\A t \in Tasks : Settled(t) => future'[t] = future[t]]_vars
  /\ [][\A t \in Tasks :
          (future[t] = "pending" /\ opState[t] = "running") =>
            /\ (opState'[t] = "ok") => (future'[t] = "resolved")
            /\ (opState'[t] = "failed") => (future'[t] = "rejected_error")
            /\ (timer[t] = "armed" /\ timer'[t] = "fired") =>
                 (future'[t] = "rejected_timeout" /\ opState'[t] = "running")]_vars
  /\ [][\A t \in Tasks :
          (Settled(t) /\ (opState'[t] # opState[t] \/ timer'[t] # timer[t])) =>
            /\ future' = future
            /\ activeWorkers' = activeWorkers
            /\ queue' = queue]_vars

\* the operation of a timed-out task finished after the timeout, and the
\* timer of a resolved task fired after the operation
C24_Witness ==
  /\ future[1] = "rejected_timeout" /\ opState[1] = "ok"
  /\ future[2] = "resolved" /\ timer[2] = "fired"

\* started tasks of which the race has not settled yet
Unsettled == {t \in Tasks : Started(t) /\ ~Settled(t)}

\* started tasks of which the .finally callback has not run yet
Unreleased == {t \in Tasks : Started(t) /\ ~released[t]}

ConfiguredRetries == IF rt.arg.isNumber THEN rt.arg.n ELSE rt.arg.obj["maxRetries"]

\* the value the caller supplied for an optional key, else the documented
\* default
Supplied(k, dflt) ==
  IF ~rt.arg.isNumber /\ k \in DOMAIN rt.arg.obj THEN rt.arg.obj[k] ELSE dflt

\* C3: with maxRetries = n the wrapped operation is invoked at most n + 1
\* times, exactly once when the first attempt succeeds, and never again after
\* an attempt has succeeded.
C3_AtMostNPlusOneCalls ==
  /\ [](rt.calls <= ConfiguredRetries + 1)
  /\ []((rt.pc = "resolved" /\ rt.fails = 0) => rt.calls = 1)
  /\ []((rt.pc = "resolved") => rt.calls = rt.fails + 1)
  /\ [][(rt.pc = "resolved") => (rt'.calls = rt.calls)]_vars

\* every attempt failed: n + 1 invocations were made
C3_Witness ==
  /\ rt.pc = "rejected"
  /\ ConfiguredRetries = 2
  /\ rt.calls = 3

\* C4: when every attempt fails, retry raises exactly the value raised by the
\* final attempt, whatever kind of value that is.
C4_RaisesFinalValueUnchanged == (rt.pc = "rejected") => (rt.outcome = rt.thrown)

\* C5: the wait after failed attempt k equals
\* min(baseDelay * backoffFactor^k, maxDelay) for the supplied values, or the
\* defaults 1000 / 10000 / 2 for values not supplied.
C5_DelayFormula ==
  \A i \in 1..Len(rt.delays) :
    rt.delays[i] = Min(Supplied("baseDelay", 1000)
                        * Pow(Supplied("backoffFactor", 2), i - 1),
                      Supplied("maxDelay", 10000))

\* C6: when the operation fails k <= maxRetries times and then succeeds, retry
\* resolves with that attempt's value after exactly k delays and k + 1
\* invocations: no delay precedes the first attempt, none follows the
\* successful one, and retry rejects only after maxRetries + 1 failures.
C6_ResolvesAfterKDelays ==
  /\ [](rt.calls = 0 => rt.delays = <<>>)
  /\ []((rt.pc = "resolved") =>
          /\ rt.result = rt.returned
          /\ Len(rt.delays) = rt.fails
          /\ rt.calls = rt.fails + 1
          /\ rt.fails <= ConfiguredRetries)
  /\ []((rt.pc = "rejected") => rt.fails = ConfiguredRetries + 1)
  /\ [][(rt.pc = "attempt" /\ rt'.calls = rt.calls + 1 /\ rt'.fails = rt.fails) =>
          (rt'.pc = "resolved" /\ rt'.delays = rt.delays)]_vars

\* Scenario B: maxRetries = 2, two failures, success on the third attempt
C6_Witness ==
  /\ rt.pc = "resolved"
  /\ ConfiguredRetries = 2
  /\ rt.fails = 2
  /\ rt.calls = 3
  /\ Len(rt.delays) = 2

(***************************************************************************)
(* Properties of purchaseGiftCard (checked under SpecFacade)               *)
(***************************************************************************)

\* C7: the facade never lets an exception cross its boundary: a failure at
\* any stage (identity synthesis, a driver step, session close) yields a
\* returned ERROR result instead of a raised error.
C7_FacadeNeverRaises == fa.pc # "threw"

\* C8: on every exit path on which the facade returns, the browser launched
\* for the session has been closed exactly once: never zero times, never
\* twice.
C8_BrowserClosedExactlyOnce ==
  /\ brs.closed <= 1
  /\ brs.closed <= brs.launched
  /\ (fa.pc = "returned" /\ brs.launched > 0) => brs.closed = 1

\* Scenario E: the payment-method step failed on all of its attempts, the
\* facade returned ERROR and the browser was closed once
C8_Witness ==
  /\ fa.pc = "returned"
  /\ fa.result.status = "ERROR"
  /\ fa.result.error = "selectPaymentMethod failed"
  /\ fa.attempt = StepRetryOptions(drv).maxRetries
  /\ brs.launched = 1
  /\ brs.closed = 1

IsPrefix(s, t) == Len(s) <= Len(t) /\ \A i \in 1..Len(s) : s[i] = t[i]

\* C9: the driver steps are invoked in the order initialize,
\* navigateToProduct, selectPaymentMethod, getDepositInfo, each at most once
\* and only after the previous one succeeded; a returned result is
\* AWAITING_PAYMENT, carrying the DepositInfo, exactly when all four
\* succeeded; once a step has failed no later step is invoked.
C9_StepsInOrder ==
  /\ [](IsPrefix(fa.invoked, <<"initialize", "navigateToProduct",
                               "selectPaymentMethod", "getDepositInfo">>))
  /\ [](IsPrefix(fa.succeeded, fa.invoked)
          /\ Len(fa.invoked) <= Len(fa.succeeded) + 1)
  /\ []((fa.pc = "returned") =>
          /\ (fa.result.status = "AWAITING_PAYMENT") <=> (Len(fa.succeeded) = 4)
          /\ (fa.result.status = "AWAITING_PAYMENT") =>
               (fa.result.depositInfo = fa.deposit))
  /\ [][(fa.pc \in {"catch", "finally", "returned", "threw"}) =>
          (fa'.invoked = fa.invoked)]_vars

\* all four steps ran in order, the third one after a retry, and the facade
\* returned the deposit information
C9_Witness ==
  /\ fa.pc = "returned"
  /\ fa.result.status = "AWAITING_PAYMENT"
  /\ Len(fa.succeeded) = 4
  /\ fa.result.depositInfo.address = "t1abc...xyz"
  /\ fa.result.depositInfo.amount = "51.47"

\* The keys of a PurchaseResult.  A result of the facade carries <<>> where
\* it has no depositInfo key and "" where it has no error key.
HasDepositInfo(res) == res.depositInfo # <<>>
HasError(res) == res.error # ""

\* C21: every result the facade returns has status AWAITING_PAYMENT or
\* ERROR; it has a depositInfo exactly when the status is AWAITING_PAYMENT
\* and an error message exactly when the status is ERROR.
C21_ResultShape ==
  (fa.pc = "returned") =>
    /\ fa.result.status \in {"AWAITING_PAYMENT", "ERROR"}
    /\ HasDepositInfo(fa.result) <=> (fa.result.status = "AWAITING_PAYMENT")
    /\ HasError(fa.result) <=> (fa.result.status = "ERROR")

\* the facade returned an ERROR result after initialize() failed
C21_Witness ==
  /\ fa.pc = "returned"
  /\ fa.result.status = "ERROR"
  /\ fa.result.error = "goto failed"
  /\ fa.invoked = <<"initialize">>

\* the status callback has been called with the status
Reported(status) == \E i \in 1..Len(fa.statusLog) : fa.statusLog[i] = status

\* C36: the status callback is called with AWAITING_PAYMENT only once
\* getDepositInfo has resolved, and a run that returns status ERROR has
\* never called it with AWAITING_PAYMENT.
C36_AwaitingPaymentReportedOnlyWithDeposit ==
  /\ Reported("AWAITING_PAYMENT") => (fa.deposit # NoDeposit)
  /\ (fa.pc = "returned" /\ fa.result.status = "ERROR") =>
       ~Reported("AWAITING_PAYMENT")

(***************************************************************************)
(* Properties of the BitrefillBrowser (checked under SpecDriver)           *)
(***************************************************************************)

\* no browser, no page and no frame handle
NoHandles(dr) == dr.browser = "null" /\ ~dr.page /\ ~dr.frameHandle

AllHandles(dr) == dr.browser = "open" /\ dr.page /\ dr.frameHandle

\* a call has completed and no other is in progress
Completed(m) == dc.pc = "idle" /\ dc.last.method = m

\* C14: navigateToProduct, selectPaymentMethod and getDepositInfo called on a
\* driver without handles (never initialized, initialization failed, already
\* closed) are rejected with "Browser not initialized" before any attempt of
\* their action and without any backoff wait, and leave the driver and the
\* browser processes as they were.
C14_UninitializedStepFailsAtOnce ==
  /\ \A m \in StepMethods :
       (Completed(m) /\ NoHandles(dc.last.before.driver)) =>
         /\ dc.last.outcome = "rejected"
         /\ dc.last.error = MkError("Browser not initialized")
         /\ dc.last.attempts = 0
         /\ dc.last.delays = 0
         /\ drv = dc.last.before.driver
         /\ brs = dc.last.before.browsers
  /\ (dc.pc \in {"attempt", "sleep"}) => ~NoHandles(dc.before.driver)

\* getDepositInfo was rejected on a driver that had been initialized and
\* then closed
C14_Witness ==
  /\ Completed("getDepositInfo")
  /\ dc.last.prior = [method |-> "close", outcome |-> "resolved"]
  /\ brs.launched = 1 /\ brs.closed = 1
  /\ dc.last.error = MkError("Browser not initialized")
  /\ dc.last.attempts = 0

\* C15: after close() has returned, the browser, page and frame handles are
\* all absent, whatever the driver state was; a close() that follows a
\* close() returns without any browser operation and changes nothing.
C15_CloseReleasesAndIsIdempotent ==
  /\ (Completed("close") /\ dc.last.outcome = "resolved") => NoHandles(drv)
  /\ (Completed("close") /\ dc.last.prior = [method |-> "close", outcome |-> "resolved"]) =>
       /\ dc.last.outcome = "resolved"
       /\ drv = dc.last.before.driver
       /\ brs = dc.last.before.browsers

\* an initialized driver was closed twice
C15_Witness ==
  /\ Completed("close")
  /\ dc.last.prior = [method |-> "close", outcome |-> "resolved"]
  /\ dc.last.outcome = "resolved"
  /\ brs.launched = 1 /\ brs.closeCalls = 1 /\ brs.closed = 1

\* C16: when initialize() has resolved the three handles are set; when it
\* has rejected the three handles are absent and the error it rejected with
\* is the failure that made it fail.
C16_InitializeAllOrNothing ==
  Completed("initialize") =>
    IF dc.last.outcome = "resolved"
      THEN AllHandles(drv)
      ELSE NoHandles(drv) /\ dc.last.error = dc.last.thrown

\* the retries the driver was configured with (options.maxRetries after the
\* constructor's merge with DEFAULT_OPTIONS)
ConfiguredStepRetries == drv.options.maxRetries

RetriedMethods == StepMethods \cup {"initialize"}

\* C17: initialize, navigateToProduct, selectPaymentMethod and
\* getDepositInfo are each retried: a call whose action failed while at
\* least one retry was configured has attempted the action again, after a
\* backoff wait, before it is rejected.
C17_EveryActionIsRetried ==
  \A m \in RetriedMethods :
    (Completed(m) /\ dc.last.outcome = "rejected" /\ dc.last.attempts >= 1
       /\ ConfiguredStepRetries >= 1) =>
      (dc.last.attempts >= 2 /\ dc.last.delays >= 1)

\* C18: a step whose action failed on every attempt has made exactly
\* maxRetries + 1 attempts, for every configured maxRetries >= 0, and is
\* rejected with the failure of its last attempt.
C18_StepMakesNPlusOneAttempts ==
  \A m \in StepMethods :
    (Completed(m) /\ dc.last.outcome = "rejected" /\ dc.last.attempts >= 1) =>
      /\ dc.last.attempts = ConfiguredStepRetries + 1
      /\ dc.last.error = dc.last.thrown

\* C19: the DepositInfo of a resolved getDepositInfo(method) has a non-empty
\* address, a non-empty amount, and paymentMethod = method.
C19_DepositInfoIsComplete ==
  (Completed("getDepositInfo") /\ dc.last.outcome = "resolved") =>
    /\ dc.last.value.address # <<>>
    /\ dc.last.value.amount # <<>>
    /\ dc.last.value.paymentMethod = dc.last.arg

\* C27: a step call during which close() completed on the same driver is
\* rejected, with "Browser not initialized" or with the step's own error.
C27_StepFailsAfterCloseInFlight ==
  \A m \in StepMethods :
    (Completed(m) /\ dc.last.closeInFlight = "completed") =>
      /\ dc.last.outcome = "rejected"
      /\ dc.last.error \in {MkError("Browser not initialized"),
                            MkError(m \o " failed")}

\* the step that must have resolved on the session before step m
StepBefore(m) ==
  IF m = "selectPaymentMethod" THEN "navigateToProduct" ELSE "selectPaymentMethod"

\* C28: the action of selectPaymentMethod is attempted only on a session on
\* which navigateToProduct has resolved, and the action of getDepositInfo
\* only on a session on which selectPaymentMethod has resolved.
C28_StepsFollowStateMachine ==
  /\ \A m \in {"selectPaymentMethod", "getDepositInfo"} :
       (Completed(m) /\ dc.last.attempts >= 1) =>
         (StepBefore(m) \in dc.last.before.done)
  /\ (dc.pc \in {"attempt", "sleep"}
        /\ dc.method \in {"selectPaymentMethod", "getDepositInfo"}) =>
       (StepBefore(dc.method) \in dc.before.done)

\* C29: navigateToProduct resolves only if the denomination was typed and
\* the add-to-cart click was performed, and selectPaymentMethod only if the
\* option click and the continue click were performed.
C29_SuccessMeansInteractionsHappened ==
  \A m \in {"navigateToProduct", "selectPaymentMethod"} :
    (Completed(m) /\ dc.last.outcome = "resolved") =>
      (dc.last.did.first /\ dc.last.did.second)

\* the texts after trim()
Trimmed(texts) == {Trim(x) : x \in texts}

\* C30: in the DepositInfo of a resolved getDepositInfo the address is the
\* text the address copy button produced and the amount the text the amount
\* copy button produced in that attempt, never a text the clipboard held
\* before because a copy click did not happen.
C30_DepositInfoIsFresh ==
  (Completed("getDepositInfo") /\ dc.last.outcome = "resolved") =>
    /\ dc.last.did.first /\ dc.last.did.second
    /\ dc.last.value.address \in Trimmed(PageAddressTexts)
    /\ dc.last.value.amount \in Trimmed(PageAmountTexts)

\* the browser processes launched and not yet closed
OpenBrowsers == brs.launched - brs.closed

\* C31: whatever initialize() and close() calls are made on one driver, the
\* browsers it has launched and not yet closed are never more than one.
C31_AtMostOneOpenBrowser == OpenBrowsers <= 1

\* C20: completePurchase() is rejected with "Not implemented yet" in every
\* driver state, at once and without any retry.
C20_CompletePurchaseNotImplemented ==
  Completed("completePurchase") =>
    /\ dc.last.outcome = "rejected"
    /\ dc.last.error = MkError("Not implemented yet")
    /\ dc.last.attempts = 0
    /\ dc.last.delays = 0

\* C20 as the code has it: completePurchase() is always rejected at once and
\* never retried; the error is "Browser not initialized" when the driver has
\* no frame handle and "Not implemented yet" when it has one.
C20_CompletePurchaseAlwaysFails ==
  Completed("completePurchase") =>
    /\ dc.last.outcome = "rejected"
    /\ dc.last.error =
         (IF dc.last.before.driver.frameHandle
            THEN MkError("Not implemented yet")
            ELSE MkError("Browser not initialized"))
    /\ dc.last.attempts = 0
    /\ dc.last.delays = 0
    /\ drv = dc.last.before.driver
    /\ brs = dc.last.before.browsers

\* completePurchase() was rejected on an initialized driver
C20_Witness ==
  /\ Completed("completePurchase")
  /\ AllHandles(dc.last.before.driver)
  /\ dc.last.error = MkError("Not implemented yet")

(***************************************************************************)
(* Properties of the interaction primitives (checked under SpecHuman)      *)
(***************************************************************************)

\* C35: a call of humanClick, humanClickLocator, humanType, humanMouseMove,
\* humanScroll or randomExploration in which an awaited automation call
\* failed does not raise to its caller, and a primitive that returns a
\* boolean returns false.
C35_PrimitivesSwallowFailures ==
  \A i \in 1..Len(hu.log) :
    hu.log[i].failed =>
      /\ hu.log[i].result # "raised"
      /\ (hu.log[i].prim \in BooleanPrimitives) => (hu.log[i].result = "false")

(***************************************************************************)
(* Properties of the consent resolver (checked under SpecConsent)          *)
(***************************************************************************)

\* handleCookieBanner has returned or raised
ResolverEnded == cb.pc \in {"after", "done"}

\* the dialog was present and the loop went through every candidate without
\* a click followed by the dialog disappearing
NoCandidateDismissed ==
  /\ cb.present = "present"
  /\ Len(cb.tried) = Len(ButtonSelectors)
  /\ \A i \in 1..Len(cb.tried) : cb.tried[i] # "hidden"

\* C32: when the dialog is present and no candidate ends with the dialog
\* disappearing (missing, click failed, or click not followed by the
\* disappearance), the fallback that sets the consent state and hides the
\* dialog has been attempted when the resolver ends, and the resolver has
\* not raised.
C32_FallbackRunsWhenNoCandidateDismisses ==
  (ResolverEnded /\ NoCandidateDismissed) =>
    /\ cb.fallback \in {"done", "threw"}
    /\ cb.result = "returned"

\* C33: the candidates are tried in the order of the list; the loop ends at
\* the first candidate whose click is followed by the dialog disappearing,
\* with no later candidate tried or clicked and no fallback; when the dialog
\* is absent there is no scroll, no click and no fallback.
C33_CandidatesInOrderUntilDismissed ==
  /\ \A i \in 1..Len(cb.tried) :
       (cb.tried[i] = "hidden") => (i = Len(cb.tried) /\ cb.dismissedBy = i)
  /\ \A i \in 1..Len(cb.clicks) : \A j \in 1..Len(cb.clicks) :
       (i < j) => (cb.clicks[i] < cb.clicks[j])
  /\ (cb.dismissedBy # 0) =>
       /\ \A i \in 1..Len(cb.clicks) : cb.clicks[i] <= cb.dismissedBy
       /\ cb.fallback = "no"
  /\ (cb.present = "absent") =>
       (~cb.scrolled /\ cb.clicks = <<>> /\ cb.tried = <<>> /\ cb.fallback = "no")

\* the first candidate was clicked without the dialog disappearing, the
\* second was missing, the third dismissed the dialog; initialize() resolved
C33_Witness ==
  /\ Completed("initialize")
  /\ cb.pc = "done"
  /\ cb.tried = <<"notHidden", "missing", "hidden">>
  /\ cb.clicks = <<1, 3>>
  /\ cb.dismissedBy = 3

\* C34: once launch, navigation and frame discovery have succeeded, nothing
\* the consent resolver or the exploration does makes initialize() fail or
\* touches the session: the handles and the browser stay as they are and
\* the call can only resolve.
C34_ConsentNeverEscalates ==
  [][(dc.pc = "consent") =>
       /\ drv' = drv
       /\ brs' = brs
       /\ \/ dc'.pc = "consent"
          \/ /\ dc'.pc = "idle"
             /\ dc'.last.method = "initialize"
             /\ dc'.last.outcome = "resolved"]_vars

\* initialize() resolved although the fallback of the resolver threw and
\* the exploration raised
C34_Witness ==
  /\ Completed("initialize")
  /\ dc.last.outcome = "resolved"
  /\ AllHandles(drv)
  /\ cb.fallback = "threw" /\ cb.caught
  /\ cb.explored = "raised"

(***************************************************************************)
(* Properties of the API server (checked under SpecApi)                    *)
(***************************************************************************)

\* the body has the field (with any JSON value, null included)
SuppliedField(x) == x.t # "undefined"

\* the handler has gone past its validation
ApiValidated == api.pc # "received" /\ api.body.parses

\* C22: a request whose supplied denomination is not one of 25, 50, 100,
\* 200, or whose supplied paymentMethod is not one of "usdc_base", "zcash",
\* is answered 400 and its checkout task is neither queued nor started; the
\* default (50, "usdc_base") is used only for a field the body does not have.
C22_InvalidRequestIs400 ==
  /\ (ApiValidated /\
        \/ (SuppliedField(api.body.denomination)
              /\ api.body.denomination \notin CardDenominationNumbers)
        \/ (SuppliedField(api.body.paymentMethod)
              /\ api.body.paymentMethod \notin PaymentMethodValues)) =>
       /\ api.pc = "responded"
       /\ api.response.status = 400
       /\ api.added = 0
       /\ api.started = 0
  /\ (ApiValidated /\ api.added = 1) =>
       /\ api.denomination =
            (IF SuppliedField(api.body.denomination)
               THEN api.body.denomination ELSE VISA_50)
       /\ api.paymentMethod =
            (IF SuppliedField(api.body.paymentMethod)
               THEN api.body.paymentMethod ELSE BASE_USDC)

(***************************************************************************)
(* Properties of a pool task running the facade (under SpecPoolFacade)     *)
(***************************************************************************)

\* a browser launched by the facade run is still open
BrowserLeft == brs.launched > brs.closed

PoolIdle == NewPool(0, 0)

FacadeAtRest ==
  /\ fa = FacadeIdle /\ drv = DriverIdle /\ brs = NoBrowsers
  /\ dc = DriverCallIdle /\ api = ApiIdle
  /\ cb = ConsentIdle /\ hu = HumanIdle

\* a WorkerPool has been constructed; nothing else is running
InitPoolOnly == InitPool /\ rt = RetryIdle /\ FacadeAtRest

\* retry has been called; nothing else is running
InitRetryOnly == InitRetry /\ PoolIdle /\ FacadeAtRest

\* purchaseGiftCard has been called; nothing else is running
InitFacadeOnly ==
  /\ InitFacade /\ PoolIdle /\ rt = RetryIdle /\ dc = DriverCallIdle /\ api = ApiIdle
  /\ cb = ConsentIdle /\ hu = HumanIdle

\* a BitrefillBrowser has been constructed by a caller; nothing else is running
InitDriverOnly ==
  /\ InitDriver /\ PoolIdle /\ rt = RetryIdle /\ fa = FacadeIdle /\ api = ApiIdle
  /\ cb = ConsentIdle /\ hu = HumanIdle

\* the interaction primitives are about to be called; nothing else is running
InitHumanOnly ==
  /\ InitHuman /\ PoolIdle /\ rt = RetryIdle
  /\ fa = FacadeIdle /\ drv = DriverIdle /\ brs = NoBrowsers /\ dc = DriverCallIdle
  /\ api = ApiIdle /\ cb = ConsentIdle

\* a checkout request has arrived at the API server; nothing else is running
InitApiOnly ==
  /\ InitApi /\ PoolIdle /\ rt = RetryIdle
  /\ fa = FacadeIdle /\ drv = DriverIdle /\ brs = NoBrowsers /\ dc = DriverCallIdle
  /\ cb = ConsentIdle /\ hu = HumanIdle

SpecPool == InitPoolOnly /\ [][NextPool]_vars

\* The event loop runs every timer callback and every promise reaction: a
\* timer that is armed eventually fires, and the .finally callback of a
\* settled task eventually runs.
PoolFairness ==
  \A t \in Tasks : WF_vars(TimerFire(t)) /\ WF_vars(Release(t))

\* enqueue(fn), called a smaller number of times
EnqueueFew == submitted < MaxFairTasks /\ Enqueue

NextPoolFew ==
  \/ EnqueueFew
  \/ \E t \in Tasks : OpSucceed(t)
  \/ \E t \in Tasks : OpFail(t)
  \/ \E t \in Tasks : TimerFire(t)
  \/ \E t \in Tasks : Release(t)

SpecPoolFair == InitPoolOnly /\ [][NextPoolFew]_vars /\ PoolFairness

SpecRetry == InitRetryOnly /\ [][NextRetry]_vars

SpecFacade == InitFacadeOnly /\ [][NextFacade]_vars

SpecDriver == InitDriverOnly /\ [][NextDriver]_vars

SpecApi == InitApiOnly /\ [][NextApi]_vars

SpecHuman == InitHumanOnly /\ [][NextHuman]_vars

\* initialize() is about to be called on a new driver; nothing else is running
InitConsentOnly ==
  /\ InitResolver /\ PoolIdle /\ rt = RetryIdle
  /\ fa = FacadeIdle /\ api = ApiIdle /\ hu = HumanIdle

SpecConsent == InitConsentOnly /\ [][NextConsent]_vars

\* a default WorkerPool has been constructed; nothing else is running
InitPoolFacadeOnly == InitPoolFacade /\ rt = RetryIdle /\ FacadeAtRest

\* Every awaited call of the facade run eventually resolves or rejects, and
\* every backoff timer eventually fires.
FacadeFairness == WF_vars(NextFacade)

SpecPoolFacade ==
  InitPoolFacadeOnly /\ [][NextPoolFacade]_vars /\ FacadeFairness

====
